---- MODULE Spec2Model ----
(***************************************************************************)
(* Model of src/data/process_temperature.py: the WorldClim tmin/tmax       *)
(* GeoTIFF to GeoJSON batch script.                                        *)
(*                                                                         *)
(* Representation choices:                                                 *)
(*  - a float is a record [nan, v]; v is a fixed-point number with two     *)
(*    decimals (the raw raster values are integers in tenths of a degree,  *)
(*    so (tmin + tmax) / 2.0 / 10.0 is always a multiple of 0.05 and is    *)
(*    exact in this representation; float32 rounding and overflow to inf   *)
(*    are outside the model);                                              *)
(*  - a raster band is one row of cells (a sequence); numpy broadcasting   *)
(*    of a one-cell row against a longer row is modelled, any other        *)
(*    length mismatch raises ValueError as numpy does;                     *)
(*  - the file system is a function from paths <<directory, name>> to      *)
(*    file records; it is fixed during a run (nothing else writes the      *)
(*    inputs while the script runs);                                       *)
(*  - an exception that no handler catches ends main(): pc = "crashed".    *)
(***************************************************************************)
EXTENDS Integers, Sequences, FiniteSets, TLC

\* ----------------------------------------------------------------- bounds
NumPeriods == 2     \* how many of the configured PERIODS entries are modelled
MaxCells == 3       \* longest raster row

\* ------------------------------------------------------------ python None
None == [some |-> FALSE]
Some(x) == [some |-> TRUE, val |-> x]

\* ----------------------------------------------------------------- floats
NaN == [nan |-> TRUE, v |-> 0]
Num(v) == [nan |-> FALSE, v |-> v]
isnan(x) == x.nan
\* int raster value -> float32 (fixed point, two decimals)
astype_float32(n) == Num(n * 100)
\* IEEE ==: false as soon as one side is not-a-number
FEq(x, y) == ~x.nan /\ ~y.nan /\ x.v = y.v
FAdd(x, y) == IF x.nan \/ y.nan THEN NaN ELSE Num(x.v + y.v)
FSub(x, y) == IF x.nan \/ y.nan THEN NaN ELSE Num(x.v - y.v)
FDiv(x, d) == IF x.nan THEN NaN ELSE Num(x.v \div d)

\* ------------------------------------------------------ numpy row arrays
Max(a, b) == IF a >= b THEN a ELSE b
Broadcastable(a, b) == Len(a) = Len(b) \/ Len(a) = 1 \/ Len(b) = 1
BIdx(a, c) == IF Len(a) = 1 THEN 1 ELSE c
ArrAdd(a, b) == [c \in 1..Max(Len(a), Len(b)) |-> FAdd(a[BIdx(a, c)], b[BIdx(b, c)])]
\* variant: the operands of the subtraction exchanged
ArrSub_reversed(a, b) ==
    [c \in 1..Max(Len(a), Len(b)) |-> FSub(b[BIdx(b, c)], a[BIdx(a, c)])]
ArrSub(a, b) == [c \in 1..Max(Len(a), Len(b)) |-> FSub(a[BIdx(a, c)], b[BIdx(b, c)])]
ArrDiv(a, d) == [c \in 1..Len(a) |-> FDiv(a[c], d)]

\* ------------------------------------------------------- configuration
AllPeriods ==
    << <<"2021-2040", "wc2.1_10m_tmin_ACCESS-CM2_ssp585_2021-2040.tif",
         "wc2.1_10m_tmax_ACCESS-CM2_ssp585_2021-2040.tif">>,
       <<"2041-2060", "wc2.1_10m_tmin_ACCESS-CM2_ssp585_2041-2060.tif",
         "wc2.1_10m_tmax_ACCESS-CM2_ssp585_2041-2060.tif">>,
       <<"2061-2080", "wc2.1_10m_tmin_ACCESS-CM2_ssp585_2061-2080.tif",
         "wc2.1_10m_tmax_ACCESS-CM2_ssp585_2061-2080.tif">>,
       <<"2081-2100", "wc2.1_10m_tmin_ACCESS-CM2_ssp585_2081-2100.tif",
         "wc2.1_10m_tmax_ACCESS-CM2_ssp585_2081-2100.tif">> >>
PERIODS == SubSeq(AllPeriods, 1, NumPeriods)
Labels == {PERIODS[k][1] : k \in 1..Len(PERIODS)}
\* the tuple BASELINE_PERIOD is set to when a baseline is configured
BaselineTuple == <<"1970-2000", "wc2.1_10m_tmin_1970-2000.tif", "wc2.1_10m_tmax_1970-2000.tif">>
FileNames ==
    {PERIODS[k][2] : k \in 1..Len(PERIODS)} \cup {PERIODS[k][3] : k \in 1..Len(PERIODS)}
        \cup {BaselineTuple[2], BaselineTuple[3]}
Dirs == {"", "data"}
Paths == Dirs \X FileNames
\* os.path.join(d, f): join("", f) is f itself, the path in the working directory
Join(d, f) == <<d, f>>

VARIABLES
    DATA_DIR,           \* configuration, line 23
    BASELINE_PERIOD,    \* configuration, line 25: None or Some(tuple)
    fs,                 \* the input files: path -> file record
    unwritable,         \* labels whose output file cannot be written
    pc,                 \* where main() is
    run,                \* number of the current start of the script
    idx,                \* position of the for loop of line 121 in PERIODS
    tiff_files_exist,   \* main's local, lines 105-109
    baseline_arr,       \* main's local, lines 116-119
    avg, transform, crs,\* main's locals of line 130, visible in SpecPeriod
    change,             \* main's local of lines 134-137, visible in SpecPeriod
    gdf,                \* main's local of lines 144/149/155, visible in SpecPeriod
    out,                \* OUTPUT_DIR: label -> written collection or None
    log,                \* what was printed in this run
    loads,              \* the calls of load_avg_temp in this run, in order
    writes,             \* label -> number of completed to_file calls in this run
    outcome,            \* label -> the branch of lines 128-155 taken in this run
    prev                \* what the previous run left: [out, outcome], or None

cfgvars == <<DATA_DIR, BASELINE_PERIOD, fs, unwritable>>
stepvars == <<avg, transform, crs, change, gdf>>
vars == <<DATA_DIR, BASELINE_PERIOD, fs, unwritable, pc, run, idx, tiff_files_exist,
          baseline_arr, avg, transform, crs, change, gdf, out, log, loads, writes,
          outcome, prev>>

\* ------------------------------------------------------------------ files
\* kind: "missing" (no such file), "corrupt" (open fails), "truncated" (opens,
\* read fails), "ok".  cells: band 1 as stored (integers, tenths of a degree).
MkFile(kind, cells, nodata, tr, ref) ==
    [kind |-> kind, cells |-> cells, nodata |-> nodata, transform |-> tr, crs |-> ref]
Missing == MkFile("missing", <<>>, None, 0, "")
Corrupt == MkFile("corrupt", <<>>, None, 0, "")
Truncated == MkFile("truncated", <<>>, None, 0, "")
Data(cells, nodata, tr, ref) == MkFile("ok", cells, nodata, tr, ref)

\* os.path.exists
exists(path) == fs[path].kind # "missing"

\* --------------------------------------------------------- load_avg_temp
\* tmin_src.read(1).astype('float32')
read1(src) == [c \in 1..Len(src.cells) |-> astype_float32(src.cells[c])]
\* variant: the sentinel cells are left as they are
mask_nodata_off(arr, nodata) == arr
\* arr[arr == nodata] = np.nan
mask_nodata(arr, nodata) ==
    [c \in 1..Len(arr) |-> IF FEq(arr[c], astype_float32(nodata)) THEN NaN ELSE arr[c]]

Raise(exc, printed) ==
    [exc |-> exc, avg |-> None, transform |-> None, crs |-> None, log |-> printed]

\* The body of the try block, lines 31-50: what it returns or raises.
load_try(tmin_path, tmax_path) ==
    LET tmin_src == fs[tmin_path]
        tmax_src == fs[tmax_path]
        opened1 == << <<"opened", tmin_path[2]>> >>
        opened2 == opened1 \o << <<"opened", tmax_path[2]>> >>
    IN  IF tmin_src.kind \in {"missing", "corrupt"}
        THEN Raise("RasterioIOError", <<>>)
        ELSE IF tmax_src.kind \in {"missing", "corrupt"}
        THEN Raise("RasterioIOError", opened1)
        ELSE IF tmin_src.kind = "truncated" \/ tmax_src.kind = "truncated"
        THEN Raise("RasterioIOError", opened2)
        ELSE LET tmin0 == read1(tmin_src)
                 tmax0 == read1(tmax_src)
                 nodata == tmin_src.nodata
                 tmin == IF nodata.some THEN mask_nodata(tmin0, nodata.val) ELSE tmin0
                 tmax == IF nodata.some THEN mask_nodata(tmax0, nodata.val) ELSE tmax0
             IN  IF ~Broadcastable(tmin, tmax)
                 THEN Raise("ValueError", opened2)
                 ELSE [exc |-> "none",
                       avg |-> Some(ArrDiv(ArrDiv(ArrAdd(tmin, tmax), 2), 10)),
                       transform |-> Some(tmin_src.transform),
                       crs |-> Some(tmin_src.crs),
                       log |-> opened2]

\* variant: only the RasterioIOError clause, no catch-all clause
handlers_io_only(r) ==
    IF r.exc = "RasterioIOError"
    THEN [raised |-> "none", avg |-> None, transform |-> None, crs |-> None,
          log |-> r.log \o << <<"ERROR", "Cannot read TIFF files">> >>]
    ELSE [raised |-> r.exc, avg |-> r.avg, transform |-> r.transform, crs |-> r.crs,
          log |-> r.log]
\* The except clauses, lines 52-58.  raised is the exception that leaves the
\* function ("none" when it returns).
handlers(r) ==
    IF r.exc = "none"
    THEN [raised |-> "none", avg |-> r.avg, transform |-> r.transform, crs |-> r.crs,
          log |-> r.log]
    ELSE IF r.exc = "RasterioIOError"
    THEN [raised |-> "none", avg |-> None, transform |-> None, crs |-> None,
          log |-> r.log \o << <<"ERROR", "Cannot read TIFF files">> >>]
    ELSE [raised |-> "none", avg |-> None, transform |-> None, crs |-> None,
          log |-> r.log \o << <<"ERROR", "Unexpected error">> >>]

load_avg_temp(tmin_path, tmax_path) == handlers(load_try(tmin_path, tmax_path))

\* ---------------------------------------------------- create_sample_data
sample_points ==
    << <<60, -100, -250>>, <<45, -75, 180>>, <<40, -74, 210>>, <<35, -118, 320>>,
       <<25, -80, 280>>, <<60, 10, 150>>, <<50, 0, 200>>, <<40, 15, 280>>,
       <<35, 140, 230>>, <<22, 114, 310>>, <<-35, 151, 260>>, <<0, 0, 120>>,
       <<-20, -50, 180>>, <<70, -150, -180>>, <<-60, 0, -50>> >>
\* Point(lon, lat).buffer(r).__geo_interface__
buffer(lon, lat, r) == [type |-> "Polygon", shape |-> <<"buffer", lon, lat, r>>]
Feature(val, geom) == [properties |-> [change |-> val], geometry |-> geom]
\* variant: Point(lat, lon)
create_sample_data_latlon(label) ==
    [k \in 1..Len(sample_points) |->
        Feature(Num(sample_points[k][3]),
                buffer(sample_points[k][1], sample_points[k][2], 5))]
create_sample_data(label) ==
    [k \in 1..Len(sample_points) |->
        Feature(Num(sample_points[k][3]),
                buffer(sample_points[k][2], sample_points[k][1], 5))]

\* --------------------------------------------------- rasterio.features.shapes
\* One polygon per maximal run of adjacent valid cells with the same value; the
\* cell columns are mapped to world coordinates by the transform (an origin).
cells_polygon(tr, first, last) ==
    [type |-> "Polygon", shape |-> <<"cells", tr + first - 1, tr + last>>]
RECURSIVE shapes_from(_, _, _, _, _)
shapes_from(image, mask, tr, c, first) ==
    IF c > Len(image) THEN <<>>
    ELSE IF ~mask[c] THEN shapes_from(image, mask, tr, c + 1, c + 1)
    ELSE IF c < Len(image) /\ mask[c + 1] /\ FEq(image[c + 1], image[c])
    THEN shapes_from(image, mask, tr, c + 1, first)
    ELSE << <<cells_polygon(tr, first, c), image[c]>> >>
            \o shapes_from(image, mask, tr, c + 1, c + 1)
shapes(image, mask, tr) == shapes_from(image, mask, tr, 1, 1)

\* variant: every cell counted as valid
validity_mask_all(grid) == [c \in 1..Len(grid) |-> TRUE]
\* lines 139-143
validity_mask(grid) == [c \in 1..Len(grid) |-> ~isnan(grid[c])]
real_features(grid, tr) ==
    LET mask == validity_mask(grid)
        polys == shapes(grid, mask, tr)
    IN  [k \in 1..Len(polys) |-> Feature(polys[k][2], polys[k][1])]
\* gpd.GeoDataFrame.from_features(features, crs=...)
from_features(features, ref) == [crs |-> ref, features |-> features]

\* ------------------------------------------------------------------- main
\* lines 134-137: change = avg - baseline_arr, or avg; numpy raises ValueError
\* when the two shapes cannot be broadcast
compute_change(a, baseline) ==
    IF baseline.some
    THEN IF Broadcastable(a, baseline.val)
         THEN [fault |-> "none", change |-> Some(ArrSub(a, baseline.val))]
         ELSE [fault |-> "ValueError", change |-> None]
    ELSE [fault |-> "none", change |-> Some(a)]

\* lines 139-144
vectorize(grid, tr, ref) == from_features(real_features(grid, tr), ref)

\* lines 148-149 and 154-155
sample_frame(label) == from_features(create_sample_data(label), "EPSG:4326")

\* variant: the collection is appended to the file already there
to_file_append(files, label, frame) ==
    [files EXCEPT ![label] =
        IF @.some
        THEN Some([crs |-> frame.crs, features |-> @.val.features \o frame.features])
        ELSE Some(frame)]
\* gdf.to_file(out_path, driver='GeoJSON'): the file is replaced by the collection
to_file(files, label, frame) == [files EXCEPT ![label] = Some(frame)]

\* lines 100-113: makedirs, the pre-check over the bare file names, the warning
Start ==
    /\ pc = "start"
    /\ LET found == \E k \in 1..Len(PERIODS) :
                        exists(Join("", PERIODS[k][2])) /\ exists(Join("", PERIODS[k][3]))
       IN  /\ tiff_files_exist' = found
           /\ log' = log \o (IF found THEN <<>> ELSE << <<"WARNING", "No TIFF files found">> >>)
    /\ pc' = "baseline"
    /\ UNCHANGED <<cfgvars, run, idx, baseline_arr, stepvars, out, loads, writes, outcome,
                   prev>>

\* variant: the baseline is loaded whenever one is configured
baseline_wanted_any == BASELINE_PERIOD.some
\* line 117: if BASELINE_PERIOD and tiff_files_exist
baseline_wanted == BASELINE_PERIOD.some /\ tiff_files_exist

\* lines 115-119
LoadBaseline ==
    /\ pc = "baseline"
    /\ IF baseline_wanted
       THEN LET tmin_b == Join(DATA_DIR, BASELINE_PERIOD.val[2])
                tmax_b == Join(DATA_DIR, BASELINE_PERIOD.val[3])
                r == load_avg_temp(tmin_b, tmax_b)
            IN  /\ loads' = Append(loads, <<tmin_b, tmax_b>>)
                /\ log' = log \o r.log
                /\ IF r.raised = "none"
                   THEN /\ baseline_arr' = r.avg
                        /\ pc' = "loop"
                   ELSE /\ baseline_arr' = None
                        /\ pc' = "crashed"
       ELSE /\ baseline_arr' = None
            /\ pc' = "loop"
            /\ UNCHANGED <<loads, log>>
    /\ idx' = 1
    /\ UNCHANGED <<cfgvars, run, tiff_files_exist, stepvars, out, writes, outcome, prev>>

\* lines 122-155 for PERIODS[k]: the collection built, what is printed, the call
\* of load_avg_temp, the branch taken and the uncaught exception if any
iteration(k) ==
    LET label == PERIODS[k][1]
        tmin_path == Join(DATA_DIR, PERIODS[k][2])
        tmax_path == Join(DATA_DIR, PERIODS[k][3])
        r == load_avg_temp(tmin_path, tmax_path)
        head == << <<"Processing", label>> >>
        b0 == [fault |-> "none", gdf |-> None, log |-> head, loads |-> <<>>,
               outcome |-> "none"]
        b1 == [b0 EXCEPT !.log = head \o r.log, !.loads = << <<tmin_path, tmax_path>> >>]
    IN  IF exists(tmin_path) /\ exists(tmax_path)
        THEN IF r.raised # "none"
             THEN [b1 EXCEPT !.fault = r.raised]
             ELSE IF r.avg.some
             THEN LET c == compute_change(r.avg.val, baseline_arr)
                  IN  IF c.fault # "none"
                      THEN [b1 EXCEPT !.fault = c.fault]
                      ELSE [b1 EXCEPT
                              !.gdf = Some(vectorize(c.change.val, r.transform.val, r.crs.val)),
                              !.outcome = IF baseline_arr.some THEN "real_change"
                                          ELSE "real_average"]
             ELSE [b1 EXCEPT !.log = @ \o << <<"Failed to load real data", label>> >>,
                             !.gdf = Some(sample_frame(label)),
                             !.outcome = "failed_sample"]
        ELSE [b0 EXCEPT !.log = @ \o << <<"Files not found", label>> >>,
                        !.gdf = Some(sample_frame(label)),
                        !.outcome = "missing_sample"]

\* One pass of the loop body, lines 121-160, the write included.  to_file raises
\* when the output file cannot be written; nothing in main() catches it.
ProcessPeriod ==
    /\ pc = "loop"
    /\ idx <= Len(PERIODS)
    /\ LET label == PERIODS[idx][1]
           it == iteration(idx)
           written == it.fault = "none" /\ label \notin unwritable
       IN  /\ loads' = loads \o it.loads
           /\ outcome' = [outcome EXCEPT ![label] = it.outcome]
           /\ IF written
              THEN /\ out' = to_file(out, label, it.gdf.val)
                   /\ writes' = [writes EXCEPT ![label] = @ + 1]
                   /\ log' = log \o it.log \o << <<"Saved", label>> >>
                   /\ idx' = idx + 1
                   /\ pc' = "loop"
              ELSE /\ log' = log \o it.log
                   /\ pc' = "crashed"
                   /\ UNCHANGED <<out, writes, idx>>
    /\ UNCHANGED <<cfgvars, run, tiff_files_exist, baseline_arr, stepvars, prev>>

\* lines 162-163
Finish ==
    /\ pc = "loop"
    /\ idx > Len(PERIODS)
    /\ pc' = "done"
    /\ log' = Append(log, <<"Processing complete", "">>)
    /\ UNCHANGED <<cfgvars, run, idx, tiff_files_exist, baseline_arr, stepvars, out, loads,
                   writes, outcome, prev>>

\* The script is started again on the same files (line 165-166); the output
\* directory keeps what the previous run wrote.
Rerun ==
    /\ pc \in {"done", "crashed"}
    /\ run = 1
    /\ run' = run + 1
    /\ prev' = Some([out |-> out, outcome |-> outcome])
    /\ pc' = "start"
    /\ idx' = 0
    /\ tiff_files_exist' = FALSE
    /\ baseline_arr' = None
    /\ log' = <<>>
    /\ loads' = <<>>
    /\ writes' = [l \in Labels |-> 0]
    /\ outcome' = [l \in Labels |-> "none"]
    /\ UNCHANGED <<cfgvars, stepvars, out>>

\* ------------------------------------------------------ the input files
NoDataVal == 0 - 9999
Row(n, v) == [c \in 1..n |-> v]
Geo4326(cells, nodata) == Data(cells, nodata, 0, "EPSG:4326")
\* The pairs <<tmin file, tmax file>> a period of a whole run may find
PeriodPairs ==
    { <<Missing, Missing>>,
      <<Geo4326(<<100, 100>>, None), Missing>>,
      <<Corrupt, Geo4326(<<200, 200>>, None)>>,
      <<Geo4326(Row(MaxCells, 100), None), Geo4326(Row(MaxCells - 1, 200), None)>>,
      <<Geo4326(<<100, NoDataVal>>, Some(NoDataVal)), Geo4326(<<200, 200>>, None)>>,
      <<Geo4326(Row(MaxCells, 100), None), Geo4326(Row(MaxCells, 300), None)>> }
BaselinePairs ==
    { <<Missing, Missing>>,
      <<Geo4326(<<100, 100>>, None), Geo4326(<<100, 100>>, None)>> }

\* The files named by PERIODS and BaselineTuple, as a function on FileNames
files_of(pairs, bpair) ==
    [f \in FileNames |->
        IF f = BaselineTuple[2] THEN bpair[1]
        ELSE IF f = BaselineTuple[3] THEN bpair[2]
        ELSE LET k == CHOOSE j \in 1..Len(PERIODS) : f \in {PERIODS[j][2], PERIODS[j][3]}
             IN  IF f = PERIODS[k][2] THEN pairs[k][1] ELSE pairs[k][2]]

InitProgram ==
    /\ pc = "start"
    /\ run = 1
    /\ idx = 0
    /\ tiff_files_exist = FALSE
    /\ baseline_arr = None
    /\ avg = None
    /\ transform = None
    /\ crs = None
    /\ change = None
    /\ gdf = None
    /\ out = [l \in Labels |-> None]
    /\ log = <<>>
    /\ loads = <<>>
    /\ writes = [l \in Labels |-> 0]
    /\ outcome = [l \in Labels |-> "none"]
    /\ prev = None

\* The state before the first run: a configuration, the input files in DATA_DIR
\* (and, when DATA_DIR is another directory, possibly copies in the working
\* directory), at most one output file that cannot be written.
Init ==
    /\ DATA_DIR \in Dirs
    /\ BASELINE_PERIOD \in {None, Some(BaselineTuple)}
    /\ unwritable \in {{}} \cup {{l} : l \in Labels}
    /\ \E pairs \in [1..Len(PERIODS) -> PeriodPairs] :
       \E bpair \in (IF BASELINE_PERIOD.some THEN BaselinePairs ELSE {<<Missing, Missing>>}) :
       \E copies \in (IF DATA_DIR = "" THEN {FALSE} ELSE BOOLEAN) :
          fs = [p \in Paths |->
                  IF p[1] = DATA_DIR \/ copies THEN files_of(pairs, bpair)[p[2]]
                  ELSE Missing]
    /\ InitProgram

Next == Start \/ LoadBaseline \/ ProcessPeriod \/ Finish \/ Rerun

Spec == Init /\ [][Next]_vars

\* ------------------------------------------------- one period, step by step
\* SpecPeriod runs lines 122-160 for PERIODS[1] one statement group at a time, on
\* every pair of input files within the bounds and every baseline array
\* within the bounds; main's locals are visible between the steps.  The
\* baseline rasters are not among the files of this specification: baseline_arr
\* is what LoadBaseline computed from them before the loop, and is drawn when
\* line 134 first reads it.
TminVals == {100, NoDataVal}
TmaxVals == {200, NoDataVal}
Rows(vals) == UNION {[1..n -> vals] : n \in 1..MaxCells}
GeoRefs == {<<0, "EPSG:4326">>, <<10, "ESRI:54009">>}
TminFiles ==
    {Missing, Corrupt, Truncated} \cup
    {Data(cells, nodata, g[1], g[2]) :
        cells \in Rows(TminVals), nodata \in {None, Some(NoDataVal)}, g \in GeoRefs}
TmaxFiles ==
    {Missing, Corrupt, Truncated} \cup
    {Data(cells, None, 0, "EPSG:4326") : cells \in Rows(TmaxVals)}
\* what LoadBaseline may have left in baseline_arr
BaselineArrays == {None} \cup {Some(g) : g \in Rows({NaN, Num(1000)})}

InitPeriod ==
    /\ DATA_DIR = ""
    /\ BASELINE_PERIOD = Some(BaselineTuple)
    /\ unwritable = {}
    /\ \E tminf \in TminFiles : \E tmaxf \in TmaxFiles :
          fs = [p \in Paths |->
                  IF p = Join("", PERIODS[1][2]) THEN tminf
                  ELSE IF p = Join("", PERIODS[1][3]) THEN tmaxf
                  ELSE Missing]
    /\ InitProgram

\* line 121-128: the loop reaches PERIODS[1]; the existence check
PeriodCheck ==
    /\ pc = "start"
    /\ idx' = 1
    /\ log' = Append(log, <<"Processing", PERIODS[1][1]>>)
    /\ IF exists(Join(DATA_DIR, PERIODS[1][2])) /\ exists(Join(DATA_DIR, PERIODS[1][3]))
       THEN /\ pc' = "load"
            /\ UNCHANGED outcome
       ELSE /\ pc' = "sample"
            /\ outcome' = [outcome EXCEPT ![PERIODS[1][1]] = "missing_sample"]
    /\ UNCHANGED <<cfgvars, run, tiff_files_exist, baseline_arr, stepvars, out, loads,
                   writes, prev>>

\* line 130 and the test of line 132
PeriodLoad ==
    /\ pc = "load"
    /\ LET tmin_path == Join(DATA_DIR, PERIODS[idx][2])
           tmax_path == Join(DATA_DIR, PERIODS[idx][3])
           r == load_avg_temp(tmin_path, tmax_path)
       IN  /\ loads' = Append(loads, <<tmin_path, tmax_path>>)
           /\ log' = log \o r.log
           /\ IF r.raised # "none"
              THEN /\ pc' = "crashed"
                   /\ UNCHANGED <<avg, transform, crs, outcome>>
              ELSE /\ avg' = r.avg
                   /\ transform' = r.transform
                   /\ crs' = r.crs
                   /\ IF r.avg.some
                      THEN /\ pc' = "change"
                           /\ UNCHANGED outcome
                      ELSE /\ pc' = "sample"
                           /\ outcome' = [outcome EXCEPT ![PERIODS[idx][1]] = "failed_sample"]
    /\ UNCHANGED <<cfgvars, run, idx, tiff_files_exist, baseline_arr, change, gdf, out,
                   writes, prev>>

\* lines 134-137, with the baseline array that LoadBaseline left
PeriodChange ==
    /\ pc = "change"
    /\ \E b \in BaselineArrays :
          LET c == compute_change(avg.val, b)
          IN  /\ baseline_arr' = b
              /\ change' = c.change
              /\ pc' = IF c.fault = "none" THEN "vectorize" ELSE "crashed"
    /\ UNCHANGED <<cfgvars, run, idx, tiff_files_exist, avg, transform, crs, gdf, out, log,
                   loads, writes, outcome, prev>>

\* lines 139-144
PeriodVectorize ==
    /\ pc = "vectorize"
    /\ gdf' = Some(vectorize(change.val, transform.val, crs.val))
    /\ outcome' = [outcome EXCEPT ![PERIODS[idx][1]] =
                       IF baseline_arr.some THEN "real_change" ELSE "real_average"]
    /\ pc' = "write"
    /\ UNCHANGED <<cfgvars, run, idx, tiff_files_exist, baseline_arr, avg, transform, crs,
                   change, out, log, loads, writes, prev>>

\* lines 146-149 and 151-155
PeriodSample ==
    /\ pc = "sample"
    /\ gdf' = Some(sample_frame(PERIODS[idx][1]))
    /\ log' = Append(log, <<"using sample data", PERIODS[idx][1]>>)
    /\ pc' = "write"
    /\ UNCHANGED <<cfgvars, run, idx, tiff_files_exist, baseline_arr, avg, transform, crs,
                   change, out, loads, writes, outcome, prev>>

\* lines 157-160
PeriodWrite ==
    /\ pc = "write"
    /\ IF PERIODS[idx][1] \in unwritable
       THEN /\ pc' = "crashed"
            /\ UNCHANGED <<out, writes, log>>
       ELSE /\ out' = to_file(out, PERIODS[idx][1], gdf.val)
            /\ writes' = [writes EXCEPT ![PERIODS[idx][1]] = @ + 1]
            /\ log' = Append(log, <<"Saved", PERIODS[idx][1]>>)
            /\ pc' = "written"
    /\ UNCHANGED <<cfgvars, run, idx, tiff_files_exist, baseline_arr, stepvars, loads,
                   outcome, prev>>

NextPeriod ==
    PeriodCheck \/ PeriodLoad \/ PeriodChange \/ PeriodVectorize \/ PeriodSample
        \/ PeriodWrite

SpecPeriod == InitPeriod /\ [][NextPeriod]_vars

\* ====================================================== properties
Range(seq) == {seq[k] : k \in 1..Len(seq)}
L1 == PERIODS[1][1]
PeriodTmin(k) == Join(DATA_DIR, PERIODS[k][2])
PeriodTmax(k) == Join(DATA_DIR, PERIODS[k][3])
BothExist(k) == exists(PeriodTmin(k)) /\ exists(PeriodTmax(k))
RealOutcomes == {"real_average", "real_change"}
\* feature f covers cell j of a grid whose first cell starts at tr
Covers(f, tr, j) ==
    /\ f.geometry.shape[1] = "cells"
    /\ f.geometry.shape[2] <= tr + j - 1
    /\ tr + j <= f.geometry.shape[3]
\* the features of every collection built or written so far
Emitted ==
    UNION ({Range(out[l].val.features) : l \in {m \in Labels : out[m].some}}
           \cup (IF gdf.some THEN {Range(gdf.val.features)} ELSE {}))
Vectorized == pc \in {"write", "written"} /\ outcome[L1] \in RealOutcomes

\* C3: load_avg_temp never lets an exception reach its caller; any failure to
\* open or read either raster, or to add the two arrays, is logged and gives
\* (None, None, None); an array comes back only when both rasters were opened
\* and read.
C3_LoadNeverPropagates ==
    Len(loads) > 0 =>
        LET tminf == fs[loads[1][1]]
            tmaxf == fs[loads[1][2]]
            failure == \/ tminf.kind # "ok"
                       \/ tmaxf.kind # "ok"
                       \/ ~Broadcastable(tminf.cells, tmaxf.cells)
        IN  /\ pc = "crashed" => avg.some
            /\ failure =>
                  /\ avg = None /\ transform = None /\ crs = None
                  /\ \E e \in Range(log) : e[1] = "ERROR"
                  /\ pc # "crashed"
            /\ avg.some => tminf.kind = "ok" /\ tmaxf.kind = "ok"
            /\ ~failure => avg.some /\ ~(\E e \in Range(log) : e[1] = "ERROR")
C3_Witness ==
    /\ Len(loads) > 0
    /\ fs[loads[1][1]].kind = "ok" /\ fs[loads[1][2]].kind = "ok"
    /\ ~Broadcastable(fs[loads[1][1]].cells, fs[loads[1][2]].cells)
    /\ avg = None
    /\ <<"ERROR", "Unexpected error">> \in Range(log)
    /\ pc = "written"

\* C6: after a successful load, a cell of the derived grid is not-a-number
\* exactly when a sentinel is declared on the minimum raster and the cell equals
\* it in the minimum or in the maximum array, and is (min + max) / 2 / 10
\* otherwise (nothing is replaced when no sentinel is declared); a cell that is
\* the sentinel in the minimum raster is covered by no feature of the output.
C6_NodataMasking ==
    (Len(loads) > 0 /\ avg.some) =>
        LET tminf == fs[loads[1][1]]
            tmaxf == fs[loads[1][2]]
            nodata == tminf.nodata
            lo(c) == tminf.cells[BIdx(tminf.cells, c)]
            hi(c) == tmaxf.cells[BIdx(tmaxf.cells, c)]
            sentinel(c) == nodata.some /\ (lo(c) = nodata.val \/ hi(c) = nodata.val)
        IN  /\ Len(avg.val) = Max(Len(tminf.cells), Len(tmaxf.cells))
            /\ \A c \in 1..Len(avg.val) :
                  IF sentinel(c) THEN isnan(avg.val[c])
                  ELSE /\ ~isnan(avg.val[c])
                       /\ avg.val[c].v * 2 * 10 = (lo(c) + hi(c)) * 100
            /\ Vectorized =>
                  \A j \in 1..Len(change.val) :
                     (nodata.some /\ lo(BIdx(avg.val, j)) = nodata.val) =>
                        /\ isnan(change.val[j])
                        /\ \A f \in Range(gdf.val.features) : ~Covers(f, transform.val, j)
C6_Witness ==
    /\ Vectorized
    /\ fs[loads[1][1]].nodata.some
    /\ fs[loads[1][1]].cells = <<100, NoDataVal, 100>>
    /\ fs[loads[1][2]].cells = <<200, 200, NoDataVal>>
    /\ avg.val = <<Num(1500), NaN, NaN>>
    /\ Len(gdf.val.features) = 1

\* C7: on the real-data path the output grid is derived minus baseline, cell by
\* cell, when a baseline array is available, and is not-a-number exactly where
\* the derived grid or the baseline grid is; without a baseline array it is the
\* derived grid itself.
C7_ChangeGrid ==
    (pc \in {"vectorize", "write", "written"} /\ outcome[L1] # "failed_sample"
        /\ outcome[L1] # "missing_sample") =>
        /\ change.some
        /\ IF baseline_arr.some
           THEN /\ Len(change.val) = Max(Len(avg.val), Len(baseline_arr.val))
                /\ \A c \in 1..Len(change.val) :
                      LET d == avg.val[BIdx(avg.val, c)]
                          b == baseline_arr.val[BIdx(baseline_arr.val, c)]
                      IN  /\ isnan(change.val[c]) <=> (isnan(d) \/ isnan(b))
                          /\ ~isnan(change.val[c]) => change.val[c].v = d.v - b.v
           ELSE change.val = avg.val
C7_Witness ==
    /\ pc = "written"
    /\ baseline_arr = Some(<<Num(1000), NaN>>)
    /\ avg.val = <<Num(1500), Num(1500)>>
    /\ change.val = <<Num(500), NaN>>
    /\ outcome[L1] = "real_change"

Label(k) == PERIODS[k][1]
Ended == pc \in {"done", "crashed"}
\* the loop body was entered for PERIODS[k] in this run
Entered(k) == pc \in {"loop", "done", "crashed"} /\ k <= idx /\ (k < idx \/ pc = "crashed")
\* the loop body ran to its end for PERIODS[k] in this run
Completed(k) == pc \in {"loop", "done", "crashed"} /\ k < idx
Warned == <<"WARNING", "No TIFF files found">> \in Range(log)
BaselineCall == <<Join(DATA_DIR, BaselineTuple[2]), Join(DATA_DIR, BaselineTuple[3])>>
\* the hardcoded sample list as <<lon, lat, change in hundredths>>
ExpectedSample ==
    << <<-100, 60, -250>>, <<-75, 45, 180>>, <<-74, 40, 210>>, <<-118, 35, 320>>,
       <<-80, 25, 280>>, <<10, 60, 150>>, <<0, 50, 200>>, <<15, 40, 280>>,
       <<140, 35, 230>>, <<114, 22, 310>>, <<151, -35, 260>>, <<0, 0, 120>>,
       <<-50, -20, 180>>, <<-150, 70, -180>>, <<0, -60, -50>> >>
FallbackCollection ==
    [crs |-> "EPSG:4326",
     features |->
        [k \in 1..15 |->
            [properties |-> [change |-> Num(ExpectedSample[k][3])],
             geometry |-> [type |-> "Polygon",
                           shape |-> <<"buffer", ExpectedSample[k][1],
                                       ExpectedSample[k][2], 5>>]]]]
\* what the four-outcome table gives for PERIODS[k]
Loaded(k) == load_avg_temp(PeriodTmin(k), PeriodTmax(k))
ExpectedOutcome(k) ==
    IF ~BothExist(k) THEN "missing_sample"
    ELSE IF ~Loaded(k).avg.some THEN "failed_sample"
    ELSE IF baseline_arr.some THEN "real_change"
    ELSE "real_average"
ExpectedFile(k) ==
    IF ~BothExist(k) \/ ~Loaded(k).avg.some THEN FallbackCollection
    ELSE [crs |-> Loaded(k).crs.val,
          features |->
             real_features(IF baseline_arr.some
                           THEN ArrSub(Loaded(k).avg.val, baseline_arr.val)
                           ELSE Loaded(k).avg.val,
                           Loaded(k).transform.val)]
OutcomeAsTabled(k) ==
    /\ outcome[Label(k)] = ExpectedOutcome(k)
    /\ writes[Label(k)] = 1
    /\ out[Label(k)] = Some(ExpectedFile(k))
    /\ ExpectedOutcome(k) = "failed_sample" =>
          <<"Failed to load real data", Label(k)>> \in Range(log)

\* C1: when main() has ended, every configured period has ended in the one of
\* the four outcomes that (inputs exist, array loaded, baseline available)
\* selects, with exactly one write of its output file.
C1_FourOutcomes == Ended => \A k \in 1..Len(PERIODS) : OutcomeAsTabled(k)

\* The part of C1 that the code keeps: every period whose loop body ran to its
\* end has the tabled outcome and exactly one write.
FourOutcomesWhenCompleted == \A k \in 1..Len(PERIODS) : Completed(k) => OutcomeAsTabled(k)

\* C2: whatever happened in the periods before it, every period is processed
\* and, unless the fault is its own, its output file is written.
C2_LaterPeriodsProcessed ==
    Ended => \A k \in 1..Len(PERIODS) :
                /\ Entered(k)
                /\ Completed(k) => writes[Label(k)] = 1

\* The part of C2 that the code keeps: a missing input, an unreadable raster or
\* an exception inside load_avg_temp never ends the run.
RecoverableFailuresContinue ==
    \A k \in 1..Len(PERIODS) :
       (Entered(k) /\ ExpectedOutcome(k) \in {"missing_sample", "failed_sample"}
            /\ Label(k) \notin unwritable) => Completed(k)

\* C10: the warning is printed at most once per run, before any period, exactly
\* when the pre-check found no period with both files; and the pre-check agrees
\* with the per-period check: with the warning every period takes the sample
\* path, without it some period takes the load path.
C10_PrecheckAgrees ==
    pc \in {"loop", "done", "crashed"} =>
        /\ Cardinality({k \in 1..Len(log) : log[k][1] = "WARNING"}) <= 1
        /\ Warned <=> ~tiff_files_exist
        /\ Warned => log[1][1] = "WARNING"
        /\ Warned => \A k \in 1..Len(PERIODS) : ~BothExist(k)
        /\ ~Warned => \E k \in 1..Len(PERIODS) : BothExist(k)

\* The part of C10 that the code keeps.
WarningOncePerRun ==
    pc \in {"loop", "done", "crashed"} =>
        /\ Cardinality({k \in 1..Len(log) : log[k][1] = "WARNING"}) <= 1
        /\ Warned <=> ~tiff_files_exist
        /\ Warned => log[1][1] = "WARNING"
        /\ DATA_DIR = "" =>
              (Warned <=> \A k \in 1..Len(PERIODS) : ~BothExist(k))

\* C4: a period with an input file missing never has load_avg_temp called for
\* it, and what is written for it is the fixed collection of 15 buffered
\* points (radius 5, EPSG:4326), whatever its label.
C4_MissingGivesFallback ==
    \A k \in 1..Len(PERIODS) :
       ~BothExist(k) =>
          /\ <<PeriodTmin(k), PeriodTmax(k)>> \notin Range(loads)
          /\ writes[Label(k)] <= 1
          /\ writes[Label(k)] = 1 => out[Label(k)] = Some(FallbackCollection)
          /\ Completed(k) => writes[Label(k)] = 1 /\ outcome[Label(k)] = "missing_sample"
C4_Witness ==
    /\ pc = "done"
    /\ exists(PeriodTmin(1)) /\ ~exists(PeriodTmax(1))
    /\ ~exists(PeriodTmin(2)) /\ ~exists(PeriodTmax(2))
    /\ out[Label(1)] = Some(FallbackCollection)
    /\ out[Label(2)] = out[Label(1)]
    /\ loads = <<>>

\* What C8 says of a single state: where the baseline call stands among the
\* calls of load_avg_temp, when it is made, what a failed load leaves, and that
\* the real-data periods of the run all used baseline_arr.
BaselineState ==
    /\ Cardinality({k \in 1..Len(loads) : loads[k] = BaselineCall}) <= 1
    /\ \A k \in 1..Len(loads) :
          loads[k] = BaselineCall => k = 1 /\ BASELINE_PERIOD.some /\ tiff_files_exist
    /\ pc \in {"start", "baseline"} => ~baseline_arr.some /\ loads = <<>>
    /\ pc \in {"loop", "done", "crashed"} =>
          LET attempted == Len(loads) > 0 /\ loads[1] = BaselineCall
          IN  /\ attempted <=> (BASELINE_PERIOD.some /\ tiff_files_exist)
              /\ baseline_arr.some => attempted
              /\ (attempted /\ (fs[BaselineCall[1]].kind # "ok" \/ fs[BaselineCall[2]].kind # "ok"))
                    => ~baseline_arr.some
              /\ pc = "crashed" => \E e \in Range(log) : e[1] = "Processing"
              /\ \A k \in 1..Len(PERIODS) :
                    (Completed(k) /\ outcome[Label(k)] \in RealOutcomes) =>
                       /\ outcome[Label(k)] =
                             (IF baseline_arr.some THEN "real_change" ELSE "real_average")
                       /\ out[Label(k)] = Some(ExpectedFile(k))
\* C8: the baseline is loaded at most once per run, before any period, only
\* when BASELINE_PERIOD is set and the pre-check found files; a failed load
\* leaves no baseline and the run goes on; the array is never changed during
\* the loop, and every real-data period of the run subtracts that one array
\* (or every one subtracts none).
C8_BaselineOnce ==
    /\ []BaselineState
    /\ [][(pc # "baseline" /\ pc' # "start") => baseline_arr' = baseline_arr]_vars
    /\ [][(Len(loads') > Len(loads) /\ loads'[Len(loads')] = BaselineCall)
              => (pc = "baseline" /\ idx = 0 /\ \A l \in Labels : outcome[l] = "none")]_vars
C8_Witness ==
    /\ pc = "done"
    /\ baseline_arr.some
    /\ \A k \in 1..Len(PERIODS) : outcome[Label(k)] = "real_change"

====
